---------------------------- MODULE Spec2Model ----------------------------
(***************************************************************************)
(* Sliding-window maximum with an index deque (src/code/script.c).         *)
(*                                                                         *)
(* main reads n, k and n integers, then slidingWindowMaximum scans the     *)
(* positions 0..n-1 once.  The state is the C program's: the input array,  *)
(* the Deque struct, the loop counter, the printed output and the control  *)
(* position, together with a log of the array cells the scan has touched.  *)
(***************************************************************************)
EXTENDS Integers, Sequences, FiniteSets, TLC

VARIABLES
    n,          \* main: int n (read by scanf)
    k,          \* main: int k (read by scanf)
    nums,       \* main: int *nums, a function 0..n-1 -> Int
    dq,         \* slidingWindowMaximum: Deque *dq (a record while allocated)
    i,          \* slidingWindowMaximum: loop counter of line 55
    out,        \* the values printed so far, in order
    pc,         \* control position
    status,     \* how the program has ended: "running" until main returns
    dataAcc,    \* indices x of every dq->data[x] read or written so far
    numsAcc,    \* indices y of every nums[y] read so far
    emptyRead,  \* TRUE once front() or back() was evaluated with size = 0
    pushed,     \* the values passed to pushBack so far, in order
    popped      \* the indices removed by popFront or popBack so far, in order

vars == <<n, k, nums, dq, i, out, pc, status, dataAcc, numsAcc, emptyRead,
          pushed, popped>>

(***************************************************************************)
(* Bounds of the explored inputs.                                          *)
(***************************************************************************)
MaxN == 4       \* lengths 0..MaxN are enumerated exhaustively
MaxAbs == 1     \* element values range over -MaxAbs..MaxAbs
KOver == 1      \* window sizes range over -KOver..n+KOver

Vals == (0 - MaxAbs)..MaxAbs

\* The range of int (lines 5-8, 53: every cell, cursor and index is an int).
IntMax == 2147483647

IntMin == (0 - IntMax) - 1

\* What a read outside an allocation, or of a cell never written, may yield:
\* any int.
Garbage == IntMin..IntMax

\* A C array indexed from 0, from a tuple.
Arr(s) == [x \in 0..(Len(s) - 1) |-> s[x + 1]]

\* The concrete scenarios of the specification, as <<nums, k>>.
Scenarios ==
    { <<Arr(<<1, 3, -1, -3, 5, 3, 6, 7>>), 3>>,
      <<Arr(<<9, 11>>), 2>>,
      <<Arr(<<4, -2>>), 2>> }

(***************************************************************************)
(* The Deque of lines 4-51.  data holds the cells written so far; cap is   *)
(* the extent of the block malloc'ed for data.                             *)
(***************************************************************************)
\* Variant: rear starts at 0 instead of -1.
createDeque_rearZero(capacity) ==
    [data |-> << >>, cap |-> capacity, front |-> 0, rear |-> 0, size |-> 0]

\* Variant: front starts at 1 instead of 0.
createDeque_frontOne(capacity) ==
    [data |-> << >>, cap |-> capacity, front |-> 1, rear |-> 0 - 1, size |-> 0]

createDeque(capacity) ==
    [data |-> << >>, cap |-> capacity, front |-> 0, rear |-> 0 - 1, size |-> 0]

\* The pointer dq before createDeque (line 54) and after destroyDeque (line 70):
\* it refers to no Deque.
NoDeque == [allocated |-> FALSE]

isEmpty(d) == d.size = 0

InBlock(d, x) == x \in 0..(d.cap - 1)

\* The cell d.data[x] lies in the block and has been written: reading it
\* is defined.
DataDefined(d, x) == InBlock(d, x) /\ x \in DOMAIN d.data

\* The result of a store outside the block: the C standard places no
\* requirement on it (in the builds the store lands on dq->rear or
\* dq->size, on a cell of nums or on the allocator's records), so the
\* record stands for a Deque in no defined state.
Overrun == [overrun |-> TRUE]

\* A read that may yield the values S yields exactly v.
Yields(S, v) == v \in S /\ ~(IntMin \in S /\ IntMax \in S)

\* The values a read of d.data[x] may yield.
ReadData(d, x) == IF DataDefined(d, x) THEN {d.data[x]} ELSE Garbage

\* Variant: the value is stored but the rear cursor is not advanced.
pushBack_rearKept(d, val) ==
    LET r == d.rear + 1
    IN  IF InBlock(d, r)
          THEN [d EXCEPT !.data = [x \in (DOMAIN d.data) \cup {r} |->
                                      IF x = r THEN val ELSE d.data[x]],
                         !.size = d.size + 1]
          ELSE Overrun

pushBack(d, val) ==
    LET r == d.rear + 1
    IN  IF InBlock(d, r)
          THEN [d EXCEPT !.rear = r,
                         !.data = [x \in (DOMAIN d.data) \cup {r} |->
                                      IF x = r THEN val ELSE d.data[x]],
                         !.size = d.size + 1]
          ELSE Overrun

\* Variant: nothing is removed.
popFront_noop(d) == d

\* Variant: the front cursor advances but the size is not decremented.
popFront_sizeKept(d) == [d EXCEPT !.front = d.front + 1]

popFront(d) == [d EXCEPT !.front = d.front + 1, !.size = d.size - 1]

\* Variant: the size is decremented but the rear cursor is left in place.
popBack_sizeOnly(d) == [d EXCEPT !.size = d.size - 1]

\* Variant: nothing is removed.
popBack_noop(d) == d

popBack(d) == [d EXCEPT !.rear = d.rear - 1, !.size = d.size - 1]

\* front() and back() read one cell; each is the set of values the read may yield.
front(d) == ReadData(d, d.front)

back(d) == ReadData(d, d.rear)

\* The cell nums[y] lies in the block main has filled: reading it is defined.
NumsDefined(y) == y \in 0..(n - 1)

\* The values a read of nums[y] may yield.
ReadNums(y) == IF NumsDefined(y) THEN {nums[y]} ELSE Garbage

(***************************************************************************)
(* The three tests of the scan loop.                                       *)
(***************************************************************************)
\* Variant: strict comparison, so index i - k is kept one position too long.
Expired_strict(f) == f < i - k

\* Variant: an index is kept until it is two positions left of the window.
Expired_late(f) == f <= i - k - 1

\* Variant: the leftmost index of the current window is already dropped.
Expired_early(f) == f <= i - k + 1

\* line 57: front(dq) <= i - k
Expired(f) == f <= i - k

\* Variant: the comparison is reversed.
Dominated_reversed(v) == v > nums[i]

\* Variant: a value one below the current one is not evicted.
Dominated_slack(v) == v < nums[i] - 1

\* Variant: equal values are evicted too.
Dominated_nonstrict(v) == v <= nums[i]

\* line 61: nums[back(dq)] < nums[i]
Dominated(v) == v < nums[i]

\* Variant: the first window is reported one position late.
Ready_late == i >= k

\* Variant: the first window is reported one position early.
Ready_early == i >= k - 2

\* line 67: i >= k - 1
Ready == i >= k - 1

(***************************************************************************)
(* Initial state: main has read n, k and nums and calls the scan.          *)
(***************************************************************************)
Init ==
    /\ \/ /\ n \in 0..MaxN
          /\ nums \in [0..(n - 1) -> Vals]
          /\ k \in (0 - KOver)..(n + KOver)
       \/ \E sc \in Scenarios :
             /\ nums = sc[1]
             /\ n = Cardinality(DOMAIN sc[1])
             /\ k = sc[2]
    /\ dq = NoDeque
    /\ i = 0
    /\ out = << >>
    /\ pc = "create"
    /\ status = "running"
    /\ dataAcc = {}
    /\ numsAcc = {}
    /\ emptyRead = FALSE
    /\ pushed = << >>
    /\ popped = << >>

(***************************************************************************)
(* Undefined behaviour.  An access outside a block, or a read of a cell    *)
(* never written, has no defined result: the builds read any int (and      *)
(* then print it, log it or index nums with it), store into dq->rear,      *)
(* dq->size or a cell of nums, are killed at the access, or are killed     *)
(* later inside printf or free.  The control position "undefined" stands    *)
(* for every such continuation; nothing is claimed of the other variables  *)
(* there, and no step leaves it.                                           *)
(***************************************************************************)
\* The access that is undefined is logged: dAcc of dq->data, nAcc of nums.
UndefinedAt(dAcc, nAcc) ==
    /\ pc' = "undefined"
    /\ status' = "undefined"
    /\ dataAcc' = dataAcc \cup dAcc
    /\ numsAcc' = numsAcc \cup nAcc
    /\ UNCHANGED <<n, k, nums, dq, i, out, emptyRead, pushed, popped>>

\* An earlier access has left its block: every later step is undefined.
Wrecked == ~(dataAcc \subseteq 0..(n - 1) /\ numsAcc \subseteq 0..(n - 1))

(***************************************************************************)
(* The steps of slidingWindowMaximum.                                      *)
(***************************************************************************)
\* line 54, and the initialisation int i = 0 of line 55
CreateDeque ==
    /\ pc = "create"
    /\ dq' = createDeque(n)
    /\ i' = 0
    /\ pc' = "loop"
    /\ UNCHANGED <<n, k, nums, out, status, dataAcc, numsAcc, emptyRead,
                   pushed, popped>>

\* line 55: the loop test i < n
ForTest ==
    /\ pc = "loop"
    /\ IF Wrecked
         THEN UndefinedAt({}, {})
         ELSE /\ pc' = IF i < n THEN "expire" ELSE "destroy"
              /\ UNCHANGED <<n, k, nums, dq, i, out, status, dataAcc, numsAcc,
                             emptyRead, pushed, popped>>

\* lines 57-58: if (!isEmpty(dq) && front(dq) <= i - k) popFront(dq);
EvictExpired ==
    /\ pc = "expire"
    /\ IF Wrecked
         THEN UndefinedAt({}, {})
         ELSE IF isEmpty(dq)
         THEN /\ pc' = "dominate"
              /\ UNCHANGED <<n, k, nums, dq, i, out, status, dataAcc, numsAcc,
                             emptyRead, pushed, popped>>
         ELSE IF ~DataDefined(dq, dq.front)
         THEN UndefinedAt({dq.front}, {})
         ELSE \E f \in front(dq) :
                 /\ dataAcc' = dataAcc \cup {dq.front}
                 /\ IF Expired(f)
                      THEN /\ dq' = popFront(dq)
                           /\ popped' = Append(popped, f)
                      ELSE UNCHANGED <<dq, popped>>
                 /\ pc' = "dominate"
                 /\ UNCHANGED <<n, k, nums, i, out, status, numsAcc, emptyRead,
                                pushed>>

\* Variant: the loop body is empty, so a true condition is tested again
\* on an unchanged deque.
EvictDominated_emptyBody ==
    /\ pc = "dominate"
    /\ IF Wrecked
         THEN UndefinedAt({}, {})
         ELSE IF isEmpty(dq)
         THEN /\ pc' = "admit"
              /\ UNCHANGED <<n, k, nums, dq, i, out, status, dataAcc, numsAcc,
                             emptyRead, pushed, popped>>
         ELSE IF ~DataDefined(dq, dq.rear)
         THEN UndefinedAt({dq.rear}, {})
         ELSE \E b \in back(dq) :
                 IF ~NumsDefined(b)
                   THEN UndefinedAt({dq.rear}, {b})
                   ELSE \E v \in ReadNums(b) :
                           /\ dataAcc' = dataAcc \cup {dq.rear}
                           /\ numsAcc' = numsAcc \cup {b, i}
                           /\ pc' = IF Dominated(v) THEN "dominate" ELSE "admit"
                           /\ UNCHANGED <<n, k, nums, dq, i, out, status,
                                          emptyRead, pushed, popped>>

\* lines 61-62: one evaluation of the while condition, and popBack if it holds
EvictDominated ==
    /\ pc = "dominate"
    /\ IF Wrecked
         THEN UndefinedAt({}, {})
         ELSE IF isEmpty(dq)
         THEN /\ pc' = "admit"
              /\ UNCHANGED <<n, k, nums, dq, i, out, status, dataAcc, numsAcc,
                             emptyRead, pushed, popped>>
         ELSE IF ~DataDefined(dq, dq.rear)
         THEN UndefinedAt({dq.rear}, {})
         ELSE \E b \in back(dq) :
                 IF ~NumsDefined(b)
                   THEN UndefinedAt({dq.rear}, {b})
                   ELSE \E v \in ReadNums(b) :
                           /\ dataAcc' = dataAcc \cup {dq.rear}
                           /\ numsAcc' = numsAcc \cup {b, i}
                           /\ IF Dominated(v)
                                THEN /\ dq' = popBack(dq)
                                     /\ popped' = Append(popped, b)
                                     /\ pc' = "dominate"
                                ELSE /\ pc' = "admit"
                                     /\ UNCHANGED <<dq, popped>>
                           /\ UNCHANGED <<n, k, nums, i, out, status,
                                          emptyRead, pushed>>

\* Variant: the index is stored through nums instead of dq->data.
Admit_writesNums ==
    /\ pc = "admit"
    /\ dq' = [dq EXCEPT !.rear = dq.rear + 1, !.size = dq.size + 1]
    /\ nums' = [x \in DOMAIN nums |-> IF x = dq.rear + 1 THEN i ELSE nums[x]]
    /\ pushed' = Append(pushed, i)
    /\ pc' = "emit"
    /\ UNCHANGED <<n, k, i, out, status, dataAcc, numsAcc, emptyRead, popped>>

\* line 64: pushBack(dq, i);
Admit ==
    /\ pc = "admit"
    /\ IF Wrecked
         THEN UndefinedAt({}, {})
         ELSE IF pushBack(dq, i) = Overrun
         THEN UndefinedAt({dq.rear + 1}, {})
         ELSE /\ dq' = pushBack(dq, i)
              /\ dataAcc' = dataAcc \cup {dq.rear + 1}
              /\ pushed' = Append(pushed, i)
              /\ pc' = "emit"
              /\ UNCHANGED <<n, k, nums, i, out, status, numsAcc, emptyRead,
                             popped>>

\* lines 67-68: if (i >= k - 1) printf("%d ", nums[front(dq)]); then i++ of line 55
EmitIfReady ==
    /\ pc = "emit"
    /\ IF Wrecked
         THEN UndefinedAt({}, {})
         ELSE IF ~Ready
         THEN /\ i' = i + 1
              /\ pc' = "loop"
              /\ UNCHANGED <<n, k, nums, dq, out, status, dataAcc, numsAcc,
                             emptyRead, pushed, popped>>
         ELSE IF ~DataDefined(dq, dq.front)
         THEN UndefinedAt({dq.front}, {})
         ELSE \E f \in front(dq) :
                 IF ~NumsDefined(f)
                   THEN UndefinedAt({dq.front}, {f})
                   ELSE \E v \in ReadNums(f) :
                           /\ emptyRead' = (emptyRead \/ isEmpty(dq))
                           /\ dataAcc' = dataAcc \cup {dq.front}
                           /\ numsAcc' = numsAcc \cup {f}
                           /\ out' = Append(out, v)
                           /\ i' = i + 1
                           /\ pc' = "loop"
                           /\ UNCHANGED <<n, k, nums, dq, status, pushed, popped>>

\* line 70: destroyDeque(dq); the scan returns to main
DestroyDeque ==
    /\ pc = "destroy"
    /\ IF Wrecked
         THEN UndefinedAt({}, {})
         ELSE /\ dq' = NoDeque
              /\ pc' = "returned"
              /\ UNCHANGED <<n, k, nums, i, out, status, dataAcc, numsAcc,
                             emptyRead, pushed, popped>>

\* lines 81-82: free(nums); return 0;
MainReturn ==
    /\ pc = "returned"
    /\ IF Wrecked
         THEN UndefinedAt({}, {})
         ELSE /\ status' = "ok"
              /\ pc' = "exit"
              /\ UNCHANGED <<n, k, nums, dq, i, out, dataAcc, numsAcc,
                             emptyRead, pushed, popped>>

Next ==
    \/ CreateDeque
    \/ ForTest
    \/ EvictExpired
    \/ EvictDominated
    \/ Admit
    \/ EmitIfReady
    \/ DestroyDeque
    \/ MainReturn

Spec == Init /\ [][Next]_vars

\* The program is sequential: a step that can be taken is taken.
FairSpec == Spec /\ WF_vars(Next)

(***************************************************************************)
(* Vocabulary of the properties.                                           *)
(***************************************************************************)
ValidInput == 1 <= k /\ k <= n

\* The control positions at which the deque is allocated.
ScanPcs == {"loop", "expire", "dominate", "admit", "emit", "destroy"}

\* The scan has processed every position and printed everything it prints.
ScanFinished == pc \in {"destroy", "returned", "exit"}

SetMax(S) == CHOOSE m \in S : \A x \in S : x <= m

\* Brute force: the maximum of nums[j..j+k-1].
WindowMax(j) == SetMax({nums[x] : x \in j..(j + k - 1)})

\* No execution from Init makes an undefined access.
AlwaysDefined == pc # "undefined" /\ ~Wrecked

TypeOK ==
    /\ n \in Nat
    /\ k \in Int
    /\ i \in 0..n
    /\ pc \in ScanPcs \cup {"create", "returned", "exit", "undefined"}
    /\ status \in {"running", "ok", "undefined"}
    /\ emptyRead \in BOOLEAN

(***************************************************************************)
(* Properties.                                                             *)
(***************************************************************************)
\* The input array as a sequence, in order.
NumsSeq == [j \in 1..n |-> nums[j - 1]]

\* C1: for valid inputs (1 <= k <= n) the j-th value emitted (0-indexed)
\* equals the maximum of nums[j..j+k-1], at every moment of the scan.
C1_WindowMaximum ==
    ValidInput => \A j \in 1..Len(out) : out[j] = WindowMax(j - 1)

\* The first scenario of the specification has run to its end.
C1_Witness ==
    /\ pc = "exit"
    /\ nums = Arr(<<1, 3, -1, -3, 5, 3, 6, 7>>)
    /\ k = 3
    /\ out = <<3, 3, 5, 5, 6, 7>>

\* C2: for valid inputs, once the scan has finished exactly n-k+1 values
\* have been emitted.
C2_OutputLength ==
    (ValidInput /\ ScanFinished) => Len(out) = n - k + 1

C2_Witness ==
    /\ pc = "destroy"
    /\ n = 4
    /\ k = 2
    /\ Len(out) = 3

\* C3: when k < 1 or k > n the operation signals InvalidWindowSize at its
\* start, before any position is scanned, and emits no output at all.
C3_InvalidWindowSizeSignalled ==
    ((k < 1 \/ k > n) /\ pc # "create") =>
        (status = "InvalidWindowSize" /\ out = << >>)

\* C4: when n = 0 the operation signals EmptyInput and emits no output.
C4_EmptyInputSignalled ==
    (n = 0 /\ pc # "create") => (status = "EmptyInput" /\ out = << >>)

\* C5: for valid inputs every access of the scan is in bounds: every
\* data[x] read or written has 0 <= x <= n-1, every nums[y] read has
\* 0 <= y <= n-1, and front()/back() are never evaluated on an empty deque.
C5_AccessesInBounds ==
    ValidInput =>
        /\ dataAcc \subseteq 0..(n - 1)
        /\ numsAcc \subseteq 0..(n - 1)
        /\ ~emptyRead

\* Every cell of both arrays has been touched, and the front has advanced.
C5_Witness ==
    /\ ValidInput
    /\ pc = "destroy"
    /\ n = 4
    /\ dataAcc = 0..(n - 1)
    /\ numsAcc = 0..(n - 1)
    /\ dq.front > 0

\* C6: for valid inputs nothing is emitted while a position i < k-1 is
\* processed; while a position i >= k-1 is processed exactly one value is
\* emitted, after index i was admitted, and it is the output of window
\* j = i-k+1, so the outputs appear in increasing order of j.
C6_EmitOncePerReadyPosition ==
    [][ValidInput =>
          /\ (out' # out =>
                /\ pc = "emit"
                /\ i >= k - 1
                /\ ~isEmpty(dq)
                /\ Yields(back(dq), i)
                /\ Len(out) = i - k + 1
                /\ Len(out') = Len(out) + 1
                /\ SubSeq(out', 1, Len(out)) = out)
          /\ ((pc = "emit" /\ i >= k - 1) => Len(out') = Len(out) + 1)
          /\ ((pc \in ScanPcs /\ i < k - 1) => out' = out)
          /\ ((pc \in {"expire", "dominate", "admit"}) => out' = out)]_vars

\* Two windows have been reported, after positions without output.
C6_Witness ==
    /\ ValidInput
    /\ pc = "loop"
    /\ k >= 2
    /\ i = k + 1
    /\ Len(out) = 2

\* C7: when k = 1 and n >= 1 the emitted sequence is the input sequence.
C7_IdentityWhenKIsOne ==
    (k = 1 /\ n >= 1 /\ ScanFinished) => out = NumsSeq

C7_Witness ==
    /\ pc = "exit"
    /\ k = 1
    /\ n = 4
    /\ out = NumsSeq
    /\ out[1] > out[2]
    /\ out[2] < out[3]

\* C8: when k = n and n >= 1 exactly one value is emitted, the maximum of
\* the whole input sequence.
C8_SingleWindowWhenKIsN ==
    (k = n /\ n >= 1 /\ ScanFinished) =>
        out = <<SetMax({nums[x] : x \in 0..(n - 1)})>>

C8_Witness ==
    /\ pc = "exit"
    /\ nums = Arr(<<9, 11>>)
    /\ k = 2
    /\ out = <<11>>

\* C9: for every n >= 0 and every nums the scan terminates: at every
\* position the eviction loop of lines 61-62 ends, and the outer loop
\* completes after processing the positions 0..n-1 once each, in
\* increasing order.
C9_Terminates ==
    /\ (pc = "dominate") ~> (pc = "admit")
    /\ <>(pc = "returned" /\ i = n)
    /\ [][(i' # i) => (pc = "emit" /\ i' = i + 1 /\ i < n)]_vars

\* A scan of a longest input has returned, having evicted from both ends.
C9_Witness ==
    /\ pc = "returned"
    /\ n = 4
    /\ i = n
    /\ k = 2
    /\ Len(out) = 3
    /\ nums[0] > nums[1]
    /\ nums[2] < nums[3]

\* C10: no step of the scan modifies the input sequence nums.
C10_NumsReadOnly == [][nums' = nums]_vars

\* Every kind of step has run on a non-trivial input.
C10_Witness ==
    /\ pc = "returned"
    /\ n = 3
    /\ k = 2
    /\ nums = Arr(<<0, 1, -1>>)
    /\ out = <<1, 1>>

(***************************************************************************)
(* Properties of the deque's contents.                                     *)
(***************************************************************************)
\* The indices stored in the deque, front to back: the cells between the
\* two cursors.
Stored(d) == [j \in 1..(d.rear - d.front + 1) |-> d.data[d.front + j - 1]]

\* The first and the last index of the window ending at position i, cut
\* at the start of the input.
WinLo == IF i - k + 1 > 0 THEN i - k + 1 ELSE 0

WinIdx == WinLo..i

WinTop == SetMax({nums[x] : x \in WinIdx})

Leftmost(S) == CHOOSE m \in S : \A x \in S : m <= x

Rightmost(S) == CHOOSE m \in S : \A x \in S : x <= m

NoDuplicates(s) == \A a, b \in 1..Len(s) : a # b => s[a] # s[b]

\* C11: in every state of the scan, after each popFront, popBack and
\* pushBack, the values nums[d] at the stored indices d, read front to
\* back, are non-increasing.
C11_ValuesNonIncreasing ==
    pc \in ScanPcs =>
        \A a, b \in 1..Len(Stored(dq)) :
            a < b => nums[Stored(dq)[a]] >= nums[Stored(dq)[b]]

\* Three indices are stored, with a tie among their values.
C11_Witness ==
    /\ pc = "emit"
    /\ Len(Stored(dq)) = 3
    /\ nums[Stored(dq)[1]] = nums[Stored(dq)[2]]
    /\ nums[Stored(dq)[2]] > nums[Stored(dq)[3]]
    /\ Len(popped) >= 1

\* C12: for valid inputs, from the end of the expiry step of position i
\* to the end of the processing of i, every stored index lies in
\* i-k+1..i: the single conditional popFront removes every index <= i-k.
C12_StoredWithinWindow ==
    (ValidInput /\ pc \in {"dominate", "admit", "emit"}) =>
        \A a \in 1..Len(Stored(dq)) :
            /\ Stored(dq)[a] >= i - k + 1
            /\ Stored(dq)[a] <= i

\* The expiry step has just removed index i-k and left a full window.
C12_Witness ==
    /\ ValidInput
    /\ pc = "dominate"
    /\ k = 2
    /\ i = 3
    /\ Len(popped) >= 1
    /\ popped[Len(popped)] = i - k
    /\ Len(Stored(dq)) = 1

\* C13: over a whole scan each index 0..n-1 is pushed exactly once, in
\* order, and removed at most once, so pushBack + popFront + popBack are
\* called at most 2n times, for every k.
C13_OpsAtMostTwoN ==
    /\ NoDuplicates(pushed)
    /\ NoDuplicates(popped)
    /\ \A a \in 1..Len(popped) : \E b \in 1..Len(pushed) : popped[a] = pushed[b]
    /\ Len(pushed) + Len(popped) <= 2 * n
    /\ ScanFinished => pushed = [j \in 1..n |-> j - 1]

\* A finished scan that removed indices from both ends.
C13_Witness ==
    /\ pc = "destroy"
    /\ n = 4
    /\ k = 2
    /\ Len(pushed) = 4
    /\ Len(popped) = 3
    /\ dq.front > 0
    /\ nums[0] < nums[1]

\* C14: the eviction loop of lines 61-62 never removes an index whose
\* value equals nums[i]; and (valid inputs) once index i is admitted, the
\* rightmost index of the current window holding the window's maximum is
\* stored in the deque.
C14_EqualValuesKept ==
    /\ [][(pc = "dominate" /\ Len(popped') > Len(popped)) =>
             nums[popped'[Len(popped')]] # nums[i]]_vars
    /\ [](ValidInput /\ pc = "emit" =>
             \E a \in 1..Len(Stored(dq)) :
                 Stored(dq)[a] = Rightmost({x \in WinIdx : nums[x] = WinTop}))

\* The window's maximum occurs twice and both occurrences are stored.
C14_Witness ==
    /\ ValidInput
    /\ pc = "emit"
    /\ k = 3
    /\ i = 3
    /\ nums[1] = WinTop
    /\ nums[3] = WinTop
    /\ nums[2] < WinTop
    /\ Stored(dq) = <<1, 3>>

\* C15 as stated: run with an invalid window size (k < 1 or k > n,
\* n >= 1), the scan overruns a buffer: some access to nums or to the
\* deque storage falls outside 0..n-1.
C15_InvalidKOverruns ==
    (n >= 1 /\ ~ValidInput /\ ScanFinished) =>
        ~(dataAcc \subseteq 0..(n - 1) /\ numsAcc \subseteq 0..(n - 1))

\* C15 as amended: run with an invalid window size (k < 1 or k > n,
\* n >= 1), every access of the scan to nums and to the deque storage
\* falls inside 0..n-1, and front() is never evaluated on an empty deque;
\* with k < 1 every nums[i] is printed, with k > n nothing is printed.
C15_InvalidKStaysInBounds ==
    (n >= 1 /\ ~ValidInput) =>
        /\ dataAcc \subseteq 0..(n - 1)
        /\ numsAcc \subseteq 0..(n - 1)
        /\ ~emptyRead
        /\ ScanFinished => out = IF k < 1 THEN NumsSeq ELSE << >>

\* A scan with k = 0 has finished, having printed the whole input.
C15_Witness ==
    /\ pc = "destroy"
    /\ n = 4
    /\ k = 0
    /\ out = NumsSeq
    /\ dataAcc = 0..(n - 1)
    /\ Len(popped) = 3

\* C16: whenever a value is emitted at position i (valid inputs), the
\* front of the deque is the leftmost index of i-k+1..i whose value is
\* the maximum of that window.
C16_FrontIsLeftmostMax ==
    (ValidInput /\ pc = "emit" /\ Ready) =>
        Yields(front(dq), Leftmost({x \in WinIdx : nums[x] = WinTop}))

\* The maximum occurs twice in the window and the front is the first.
C16_Witness ==
    /\ ValidInput
    /\ pc = "emit"
    /\ Ready
    /\ k = 3
    /\ i = 3
    /\ nums[1] = nums[3]
    /\ nums[2] < nums[1]
    /\ Yields(front(dq), 1)

\* C17: in every state of the scan the stored indices are strictly
\* increasing from front to back, and right after admit(i) the back of
\* the deque is i.
C17_IndicesIncreasing ==
    pc \in ScanPcs =>
        /\ \A a, b \in 1..Len(Stored(dq)) :
              a < b => Stored(dq)[a] < Stored(dq)[b]
        /\ pc = "emit" => (~isEmpty(dq) /\ Yields(back(dq), i))

C17_Witness ==
    /\ pc = "emit"
    /\ i = 3
    /\ Stored(dq) = <<1, 2, 3>>

\* C18: after any sequence of pushBack, popFront and popBack of the scan
\* the cursors are consistent: size = rear - front + 1, size >= 0 and
\* 0 <= front <= rear + 1 <= n.
C18_CursorsConsistent ==
    pc \in ScanPcs =>
        /\ dq.size = dq.rear - dq.front + 1
        /\ dq.size >= 0
        /\ 0 <= dq.front
        /\ dq.front <= dq.rear + 1
        /\ dq.rear + 1 <= n

\* Both cursors have moved forward and the rear cursor has moved back.
C18_Witness ==
    /\ pc = "destroy"
    /\ n = 4
    /\ dq.front = 2
    /\ dq.rear = 2
    /\ dq.size = 1
    /\ Len(popped) = 3

=============================================================================
